---- MODULE Spec2Model ----
(***************************************************************************)
(* JD <-> Resume matcher (src/app.py): label normalisation, presence       *)
(* detection, years extraction, and the matching run with its per-skill    *)
(* score and group aggregation.                                            *)
(*                                                                         *)
(* Text is a sequence of characters, each character a one-element string;  *)
(* the unicode en-dash U+2013 is the character "ndash".  Optional values   *)
(* (Python None) are sequences of length at most one: <<>> is None, <<n>>   *)
(* is the value n.  Floats are exact rationals <<num, den>> in lowest      *)
(* terms; a percentage rounded to two decimals is an integer count of      *)
(* hundredths (6000 is 60.00).                                             *)
(***************************************************************************)
EXTENDS Integers, Sequences, FiniteSets, TLC

\* ------------------------------------------------------------------------
\* Characters and strings
\* ------------------------------------------------------------------------
Upper == {"A","B","C","D","E","F","G","H","I","J","K","L","M",
          "N","O","P","Q","R","S","T","U","V","W","X","Y","Z"}

LowerCase == {"a","b","c","d","e","f","g","h","i","j","k","l","m",
              "n","o","p","q","r","s","t","u","v","w","x","y","z"}

Digits == {"0","1","2","3","4","5","6","7","8","9"}

ToLowerMap ==
  "A" :> "a" @@ "B" :> "b" @@ "C" :> "c" @@ "D" :> "d" @@ "E" :> "e" @@
  "F" :> "f" @@ "G" :> "g" @@ "H" :> "h" @@ "I" :> "i" @@ "J" :> "j" @@
  "K" :> "k" @@ "L" :> "l" @@ "M" :> "m" @@ "N" :> "n" @@ "O" :> "o" @@
  "P" :> "p" @@ "Q" :> "q" @@ "R" :> "r" @@ "S" :> "s" @@ "T" :> "t" @@
  "U" :> "u" @@ "V" :> "v" @@ "W" :> "w" @@ "X" :> "x" @@ "Y" :> "y" @@
  "Z" :> "z"

DigitVal ==
  "0" :> 0 @@ "1" :> 1 @@ "2" :> 2 @@ "3" :> 3 @@ "4" :> 4 @@
  "5" :> 5 @@ "6" :> 6 @@ "7" :> 7 @@ "8" :> 8 @@ "9" :> 9

\* \w of the re module: letters, digits, underscore
IsWord(c) == c \in Upper \/ c \in LowerCase \/ c \in Digits \/ c = "_"

\* \s of the re module (the model's texts hold no other whitespace)
IsSpace(c) == c = " "

IsDigit(c) == c \in Digits

\* str.lower()
LowerChar(c) == IF c \in Upper THEN ToLowerMap[c] ELSE c

LowerStr(s) == [k \in 1..Len(s) |-> LowerChar(s[k])]

\* s[a-1:b-1] of Python for 1-based a, exclusive b
Slice(s, a, b) == [k \in 1..(b - a) |-> s[a + k - 1]]

\* p occurs in t starting at (1-based) position i
OccursAt(t, p, i) ==
  /\ i >= 1
  /\ i + Len(p) - 1 <= Len(t)
  /\ \A k \in 1..Len(p) : t[i + k - 1] = p[k]

\* the `in` operator on strings
Contains(t, p) == \E i \in 1..(Len(t) - Len(p) + 1) : OccursAt(t, p, i)

\* \b at the gap before position i (between t[i-1] and t[i])
WordBoundary(t, i) ==
  LET before == i - 1 >= 1 /\ i - 1 <= Len(t) /\ IsWord(t[i - 1])
      after  == i >= 1 /\ i <= Len(t) /\ IsWord(t[i])
  IN  before # after

\* first position >= i whose character fails the class test, Len+1 if none
RECURSIVE SkipSpaces(_, _)
SkipSpaces(t, i) ==
  IF i <= Len(t) /\ IsSpace(t[i]) THEN SkipSpaces(t, i + 1) ELSE i

RECURSIVE SkipDigits(_, _)
SkipDigits(t, i) ==
  IF i <= Len(t) /\ IsDigit(t[i]) THEN SkipDigits(t, i + 1) ELSE i

\* str.strip()
RECURSIVE StripLeft(_)
StripLeft(s) ==
  IF Len(s) > 0 /\ IsSpace(s[1]) THEN StripLeft(Tail(s)) ELSE s

RECURSIVE StripRight(_)
StripRight(s) ==
  IF Len(s) > 0 /\ IsSpace(s[Len(s)])
  THEN StripRight(SubSeq(s, 1, Len(s) - 1)) ELSE s

Strip(s) == StripRight(StripLeft(s))

\* int() of a run of decimal digits
RECURSIVE ParseInt(_)
ParseInt(ds) ==
  IF Len(ds) = 0 THEN 0
  ELSE 10 * ParseInt(SubSeq(ds, 1, Len(ds) - 1)) + DigitVal[ds[Len(ds)]]

None == <<>>

Some(v) == <<v>>

\* ------------------------------------------------------------------------
\* normalize_skill_label
\* ------------------------------------------------------------------------
\* the alternatives of NOISE_RE, in the order the regex tries them
NoiseWords ==
  << <<"e","x","p">>,
     <<"e","x","p",".">>,
     <<"e","x","p","e","r","i","e","n","c","e">>,
     <<"e","x","p","e","r","t","i","s","e">>,
     <<"m","i","n","i","m","u","m">>,
     <<"s","h","o","u","l","d">>,
     <<"y","e","a","r","s">>,
     <<"y","r","s">> >>

\* the character class of PUNCT_RE
PunctChars == {"(", ")", "[", "]", "-", "_", ":", ",", "/"}

\* length of the NOISE_RE match starting at position i of x, 0 if none:
\* \b, the first alternative that is followed by \b, case-insensitively
NoiseMatchLen(x, i) ==
  LET lx == LowerStr(x)
      ok(a) == /\ OccursAt(lx, NoiseWords[a], i)
               /\ WordBoundary(x, i + Len(NoiseWords[a]))
      hits == {a \in 1..Len(NoiseWords) : ok(a)}
  IN  IF WordBoundary(x, i) /\ hits # {}
      THEN Len(NoiseWords[CHOOSE a \in hits : \A b \in hits : a <= b])
      ELSE 0

\* NOISE_RE.sub(" ", x), scanning from position i
RECURSIVE NoiseSub(_, _)
NoiseSub(x, i) ==
  IF i > Len(x) THEN <<>>
  ELSE LET n == NoiseMatchLen(x, i)
       IN  IF n > 0 THEN <<" ">> \o NoiseSub(x, i + n)
           ELSE <<x[i]>> \o NoiseSub(x, i + 1)

\* PUNCT_RE.sub(" ", x): every run of punctuation becomes one space
RECURSIVE PunctSub(_, _)
PunctSub(x, i) ==
  IF i > Len(x) THEN <<>>
  ELSE IF x[i] \in PunctChars
       THEN IF i > 1 /\ x[i - 1] \in PunctChars
            THEN PunctSub(x, i + 1)
            ELSE <<" ">> \o PunctSub(x, i + 1)
       ELSE <<x[i]>> \o PunctSub(x, i + 1)

\* re.sub(r'\s+', ' ', x): every run of whitespace becomes one space
RECURSIVE SpaceSub(_, _)
SpaceSub(x, i) ==
  IF i > Len(x) THEN <<>>
  ELSE IF IsSpace(x[i])
       THEN IF i > 1 /\ IsSpace(x[i - 1])
            THEN SpaceSub(x, i + 1)
            ELSE <<" ">> \o SpaceSub(x, i + 1)
       ELSE <<x[i]>> \o SpaceSub(x, i + 1)

normalize_skill_label(s) ==
  IF Len(s) = 0 THEN <<>>
  ELSE LET x1 == Strip(s)
           x2 == NoiseSub(x1, 1)
           x3 == PunctSub(x2, 1)
       IN  Strip(SpaceSub(x3, 1))

\* ------------------------------------------------------------------------
\* has_skill
\* ------------------------------------------------------------------------
\* A synonyms value as json.loads delivers it: kind "list" (items: its
\* strings), kind "number" (a non-zero number) or kind "null".
SynList(items) == [kind |-> "list", items |-> items]

SynNumber == [kind |-> "number", items |-> <<>>]

SynNull == [kind |-> "null", items |-> <<>>]

\* truth value of a synonyms value (`if synonyms:`)
Truthy(syns) ==
  \/ syns.kind = "number"
  \/ syns.kind = "list" /\ Len(syns.items) > 0

RECURSIVE SkipWord(_, _)
SkipWord(t, i) ==
  IF i <= Len(t) /\ IsWord(t[i]) THEN SkipWord(t, i + 1) ELSE i

\* the non-empty pieces of re.split(r'\W+', s), as <<first, last>> positions:
\* the maximal runs of word characters
Tokens(s) ==
  {<<a, SkipWord(s, a) - 1>> :
     a \in {i \in 1..Len(s) : IsWord(s[i]) /\ (i = 1 \/ ~IsWord(s[i - 1]))}}

\* re.search(rf'\b{tok}\b', t)
TokenFound(t, tok) ==
  \E i \in 1..(Len(t) - Len(tok) + 1) :
     /\ OccursAt(t, tok, i)
     /\ WordBoundary(t, i)
     /\ WordBoundary(t, i + Len(tok))

\* has_skill raises: iterating a truthy synonyms value that is no list
has_skill_raises(text, skill, synonyms) ==
  /\ Len(text) > 0
  /\ Len(skill) > 0
  /\ synonyms.kind = "number"

\* the first two tiers of has_skill: a candidate is a substring of the
\* text, or every token of the label is a whole word of the text
ExactOrTokens(text, skill, synonyms) ==
  LET t == LowerStr(text)
      s == Strip(LowerStr(skill))
      candidates ==
        <<s>> \o (IF Truthy(synonyms)
                  THEN [k \in 1..Len(synonyms.items) |->
                          LowerStr(synonyms.items[k])]
                  ELSE <<>>)
      toks == Tokens(s)
  IN  \/ \E k \in 1..Len(candidates) :
            Len(candidates[k]) > 0 /\ Contains(t, candidates[k])
      \/ /\ toks # {}
         /\ \A ab \in toks : TokenFound(t, Slice(s, ab[1], ab[2] + 1))

\* the fuzzy tier is tried: `not strict and len(s) > 3`
FuzzyTried(skill, strict) == ~strict /\ Len(Strip(LowerStr(skill))) > 3

\* fz is the outcome of fuzz.partial_ratio(s, t) >= 85 (rapidfuzz, external)
has_skill(text, skill, synonyms, strict, fz) ==
  IF Len(text) = 0 \/ Len(skill) = 0 THEN FALSE
  ELSE IF ExactOrTokens(text, skill, synonyms) THEN TRUE
  ELSE IF FuzzyTried(skill, strict) THEN fz
  ELSE FALSE

\* the outcome of has_skill is that of fuzz.partial_ratio
FuzzyDecides(text, skill, synonyms, strict) ==
  /\ Len(text) > 0
  /\ Len(skill) > 0
  /\ FuzzyTried(skill, strict)
  /\ ~ExactOrTokens(text, skill, synonyms)

\* ------------------------------------------------------------------------
\* extract_years_near_skill
\* ------------------------------------------------------------------------
Window == 120

EnDash == "ndash"

Max(S) == CHOOSE m \in S : \A n \in S : n <= m

\* end (exclusive) of years|yrs|y at position u of t, 0 if none
UnitEnd(t, u) ==
  IF OccursAt(t, <<"y","e","a","r","s">>, u) THEN u + 5
  ELSE IF OccursAt(t, <<"y","r","s">>, u) THEN u + 3
  ELSE IF OccursAt(t, <<"y">>, u) THEN u + 1
  ELSE 0

\* (\d+\s*[-–]\s*\d+|\d+\+?)\s*(?:years|yrs|y) matched at position i:
\* <<group end (exclusive), match end (exclusive)>>, or <<>> if no match
YearsMatchAt(t, i) ==
  IF ~(i <= Len(t) /\ IsDigit(t[i])) THEN <<>>
  ELSE
    LET d1 == SkipDigits(t, i)
        s1 == SkipSpaces(t, d1)
        dash == s1 <= Len(t) /\ t[s1] \in {"-", EnDash}
        s2 == SkipSpaces(t, s1 + 1)
        d2 == SkipDigits(t, s2)
        u1 == UnitEnd(t, SkipSpaces(t, d2))
        p2 == IF d1 <= Len(t) /\ t[d1] = "+" THEN d1 + 1 ELSE d1
        u2 == UnitEnd(t, SkipSpaces(t, p2))
    IN  IF dash /\ d2 > s2 /\ u1 > 0 THEN <<d2, u1>>
        ELSE IF u2 > 0 THEN <<p2, u2>>
        ELSE <<>>

\* the number the code takes from a matched group g: the last number of
\* the group if it holds an ASCII hyphen, its first number otherwise
GroupValue(g) ==
  LET e == Max({k \in 1..Len(g) : IsDigit(g[k])})
      a == CHOOSE k \in 1..e :
             /\ \A m \in k..e : IsDigit(g[m])
             /\ (k = 1 \/ ~IsDigit(g[k - 1]))
  IN  IF \E k \in 1..Len(g) : g[k] = "-"
      THEN ParseInt(Slice(g, a, e + 1))
      ELSE ParseInt(Slice(g, 1, SkipDigits(g, 1)))

\* the values of re.findall(...) over t from position i on; ds holds the
\* positions of the digits of t, the only places where a match can start
RECURSIVE YearsFrom(_, _, _)
YearsFrom(t, ds, i) ==
  LET rest == {d \in ds : d >= i}
  IN  IF rest = {} THEN {}
      ELSE LET d == CHOOSE x \in rest : \A y \in rest : x <= y
               m == YearsMatchAt(t, d)
           IN  IF m = <<>> THEN YearsFrom(t, ds, d + 1)
               ELSE {GroupValue(Slice(t, d, m[1]))} \cup YearsFrom(t, ds, m[2])

YearsScan(t) == YearsFrom(t, {d \in 1..Len(t) : IsDigit(t[d])}, 1)

\* of the positions ps where a pattern of length n > 0 occurs, those that
\* re.finditer reports from position i on: leftmost first, not overlapping
RECURSIVE NonOverlapping(_, _, _)
NonOverlapping(ps, n, i) ==
  LET rest == {x \in ps : x >= i}
  IN  IF rest = {} THEN {}
      ELSE LET m == CHOOSE x \in rest : \A y \in rest : x <= y
           IN  {m} \cup NonOverlapping(ps, n, m + n)

\* start positions of re.finditer(re.escape(p), t)
Occurrences(t, p) ==
  LET ps == {i \in 1..(Len(t) - Len(p) + 1) : OccursAt(t, p, i)}
  IN  IF Len(p) = 0 THEN ps ELSE NonOverlapping(ps, Len(p), 1)

extract_years_near_skill(text, skill_syns, window) ==
  LET t == LowerStr(text)
      near == UNION {
                UNION { LET a == IF i - window < 1 THEN 1 ELSE i - window
                            e == i + Len(skill_syns[k]) + window
                            b == IF e > Len(t) + 1 THEN Len(t) + 1 ELSE e
                        IN  YearsScan(Slice(t, a, b))
                        : i \in Occurrences(t, LowerStr(skill_syns[k])) }
                : k \in 1..Len(skill_syns) }
      global == YearsScan(t)
  IN  IF near # {} THEN Some(Max(near))
      ELSE IF global # {} THEN Some(Max(global))
      ELSE None

\* ------------------------------------------------------------------------
\* Floats as exact rationals
\* ------------------------------------------------------------------------
RECURSIVE GCD(_, _)
GCD(a, b) == IF b = 0 THEN a ELSE GCD(b, a % b)

\* n/d in lowest terms (n >= 0, d > 0)
Rat(n, d) == LET g == GCD(n, d) IN <<n \div g, d \div g>>

RAdd(a, b) == Rat(a[1] * b[2] + b[1] * a[2], a[2] * b[2])

\* a - b for a >= b
RSub(a, b) == Rat(a[1] * b[2] - b[1] * a[2], a[2] * b[2])

RMul(a, b) == Rat(a[1] * b[1], a[2] * b[2])

RLe(a, b) == a[1] * b[2] <= b[1] * a[2]

RMin(a, b) == IF RLe(a, b) THEN a ELSE b

RECURSIVE RSum(_)
RSum(xs) == IF Len(xs) = 0 THEN <<0, 1>> ELSE RAdd(Head(xs), RSum(Tail(xs)))

\* round(x*100, 2) as a count of hundredths: nearest, ties to even
RoundPercent(x) ==
  LET n == x[1] * 10000
      d == x[2]
      q == n \div d
      r == n % d
  IN  IF 2 * r < d THEN q
      ELSE IF 2 * r > d THEN q + 1
      ELSE IF q % 2 = 0 THEN q ELSE q + 1

\* ------------------------------------------------------------------------
\* The per-skill score and the group aggregation of the matching loop
\* ------------------------------------------------------------------------
\* truth value of an optional number (`if req` / `if years`)
TruthyNum(o) == o # None /\ o[1] # 0

\* SkillScore giving no credit to a present skill without a years figure
SkillScoreNoYearsNoCredit(req, is_present, years_found, presence_w, exp_w) ==
  IF TruthyNum(req)
  THEN IF is_present /\ years_found # None
       THEN LET exp_ratio == RMin(Rat(years_found[1], req[1]), <<1, 1>>)
            IN  RAdd(RMul(presence_w, <<1, 1>>), RMul(exp_w, exp_ratio))
       ELSE <<0, 1>>
  ELSE IF is_present THEN <<1, 1>> ELSE <<0, 1>>

\* SkillScore without the cap of the experience ratio at 1.0
SkillScoreUncapped(req, is_present, years_found, presence_w, exp_w) ==
  IF TruthyNum(req)
  THEN IF is_present /\ years_found # None
       THEN LET exp_ratio == Rat(years_found[1], req[1])
            IN  RAdd(RMul(presence_w, <<1, 1>>), RMul(exp_w, exp_ratio))
       ELSE IF is_present /\ years_found = None
       THEN RAdd(RMul(presence_w, <<1, 1>>), RMul(exp_w, <<0, 1>>))
       ELSE <<0, 1>>
  ELSE IF is_present THEN <<1, 1>> ELSE <<0, 1>>

SkillScore(req, is_present, years_found, presence_w, exp_w) ==
  IF TruthyNum(req)
  THEN IF is_present /\ years_found # None
       THEN LET exp_ratio == RMin(Rat(years_found[1], req[1]), <<1, 1>>)
            IN  RAdd(RMul(presence_w, <<1, 1>>), RMul(exp_w, exp_ratio))
       ELSE IF is_present /\ years_found = None
       THEN RAdd(RMul(presence_w, <<1, 1>>), RMul(exp_w, <<0, 1>>))
       ELSE <<0, 1>>
  ELSE IF is_present THEN <<1, 1>> ELSE <<0, 1>>

mand_weight == <<8, 10>>

des_weight == <<2, 10>>

\* sum(xs)/len(xs) if xs else 0.0
GroupAvg(xs) ==
  IF Len(xs) > 0 THEN RMul(RSum(xs), <<1, Len(xs)>>) ELSE <<0, 1>>

\* Overall with the two group weights exchanged
OverallSwappedWeights(mand, des) ==
  RoundPercent(RAdd(RMul(GroupAvg(mand), des_weight),
                    RMul(GroupAvg(des), mand_weight)))

Overall(mand, des) ==
  RoundPercent(RAdd(RMul(GroupAvg(mand), mand_weight),
                    RMul(GroupAvg(des), des_weight)))

\* ------------------------------------------------------------------------
\* Job description: candidate skills and their required years
\* ------------------------------------------------------------------------
master_skills ==
  << <<"T","O","S","C","A">>,
     <<"C","I","/","C","D">>,
     <<"W","e","b"," ","A","p","p","l","i","c","a","t","i","o","n"," ","A","u","t","o","m","a","t","i","o","n">>,
     <<"M","a","i","n","f","r","a","m","e"," ","A","u","t","o","m","a","t","i","o","n"," ","T","e","s","t","i","n","g">>,
     <<"L","o","a","d","R","u","n","n","e","r">>,
     <<"D","y","n","a","t","r","a","c","e">>,
     <<"S","p","l","u","n","k">>,
     <<"V","U","G","e","n">> >>

\* [A-Za-z0-9+\-#.]
IsCapTok(c) ==
  c \in Upper \/ c \in LowerCase \/ c \in Digits \/ c \in {"+", "-", "#", "."}

RECURSIVE SkipCapTok(_, _)
SkipCapTok(t, i) ==
  IF i <= Len(t) /\ IsCapTok(t[i]) THEN SkipCapTok(t, i + 1) ELSE i

\* the largest e in lo..hi with \b at e, 0 if none: where the regex, giving
\* back one character at a time, first finds its closing \b
LastBoundary(t, lo, hi) ==
  LET es == {e \in lo..hi : WordBoundary(t, e)}
  IN  IF es = {} THEN 0 ELSE Max(es)

\* \b([A-Z][A-Za-z0-9+\-#.]{1,}(?:\s+[A-Z][A-Za-z0-9+\-#.]{1,}){0,2})\b
\* matched at position i: the end (exclusive) of the match, 0 if none
CapsMatchEnd(t, i) ==
  IF ~(i <= Len(t) /\ t[i] \in Upper /\ WordBoundary(t, i)) THEN 0
  ELSE
    LET e1 == SkipCapTok(t, i + 1)
        s2 == SkipSpaces(t, e1)
        has2 == e1 >= i + 2 /\ s2 > e1 /\ s2 <= Len(t) /\ t[s2] \in Upper
                  /\ SkipCapTok(t, s2 + 1) >= s2 + 2
        e2 == SkipCapTok(t, s2 + 1)
        s3 == SkipSpaces(t, e2)
        has3 == has2 /\ s3 > e2 /\ s3 <= Len(t) /\ t[s3] \in Upper
                  /\ SkipCapTok(t, s3 + 1) >= s3 + 2
        e3 == SkipCapTok(t, s3 + 1)
        b3 == IF has3 THEN LastBoundary(t, s3 + 2, e3) ELSE 0
        b2 == IF has2 THEN LastBoundary(t, s2 + 2, e2) ELSE 0
        b1 == LastBoundary(t, i + 2, e1)
    IN  IF b3 > 0 THEN b3 ELSE IF b2 > 0 THEN b2 ELSE b1

\* re.findall of the capitalised-phrase regex over t from position i on
RECURSIVE CapsFindAll(_, _)
CapsFindAll(t, i) ==
  IF i > Len(t) THEN <<>>
  ELSE LET e == CapsMatchEnd(t, i)
       IN  IF e > 0 THEN <<Slice(t, i, e)>> \o CapsFindAll(t, e)
           ELSE CapsFindAll(t, i + 1)

InSeq(x, xs) == \E k \in 1..Len(xs) : xs[k] = x

\* append the items of xs that are not yet in acc, in order
RECURSIVE AppendNew(_, _)
AppendNew(acc, xs) ==
  IF Len(xs) = 0 THEN acc
  ELSE AppendNew(IF InSeq(Head(xs), acc) THEN acc ELSE Append(acc, Head(xs)),
                 Tail(xs))

\* the candidate list built from the JD preview text
Candidates(jd) ==
  LET hit(ms) == Contains(LowerStr(jd), LowerStr(ms))
  IN  AppendNew(AppendNew(<<>>, SelectSeq(master_skills, hit)),
                CapsFindAll(jd, 1))

ReqGap == 80

\* the trigger alternatives of the requirement regex for candidate c
ReqTriggers(c) ==
  << <<"m","i","n","i","m","u","m">>,
     <<"a","t"," ","l","e","a","s","t">>,
     <<">","=">>,
     LowerStr(c) >>

\* (\d+)\s*(?:\+)?\s*(?:years|yrs|y) matched at position p of t
ReqNumberAt(t, p) ==
  /\ p <= Len(t)
  /\ IsDigit(t[p])
  /\ LET d == SkipDigits(t, p)
         s1 == SkipSpaces(t, d)
         s2 == IF s1 <= Len(t) /\ t[s1] = "+" THEN s1 + 1 ELSE s1
     IN  UnitEnd(t, SkipSpaces(t, s2)) > 0

\* the candidate's detected years:
\* re.search(rf'(?:minimum|at least|>=|\b{c}\b).{0,80}?(\d+)\s*(?:\+)?\s*(?:years|yrs|y)', jd, re.I)
ParseRequirement(jd, c) ==
  LET t == LowerStr(jd)
      trig == ReqTriggers(c)
      trigAt(a, i) ==
        /\ OccursAt(t, trig[a], i)
        /\ (a = 4 => WordBoundary(t, i) /\ WordBoundary(t, i + Len(trig[a])))
      full(i, a, k) == trigAt(a, i) /\ ReqNumberAt(t, i + Len(trig[a]) + k)
      starts == {i \in 1..Len(t) :
                   \E a \in 1..4 : \E k \in 0..ReqGap : full(i, a, k)}
  IN  IF starts = {} THEN None
      ELSE LET i == CHOOSE x \in starts : \A y \in starts : x <= y
               as == {a \in 1..4 : \E k \in 0..ReqGap : full(i, a, k)}
               a == CHOOSE x \in as : \A y \in as : x <= y
               ks == {k \in 0..ReqGap : full(i, a, k)}
               k == CHOOSE x \in ks : \A y \in ks : x <= y
               p == i + Len(trig[a]) + k
           IN  Some(ParseInt(Slice(t, p, SkipDigits(t, p))))

\* ------------------------------------------------------------------------
\* Skill list
\* ------------------------------------------------------------------------
\* line.lower().startswith(prefix)
StartsWith(line, prefix) == OccursAt(LowerStr(line), prefix, 1)

\* line.split(":", 1)[1]
AfterColon(line) ==
  LET c == CHOOSE k \in 1..Len(line) :
             line[k] = ":" /\ \A m \in 1..(k - 1) : line[m] # ":"
  IN  Slice(line, c + 1, Len(line) + 1)

IsMandatoryLine(line) ==
  \/ StartsWith(line, <<"m",":">>)
  \/ StartsWith(line, <<"m","a","n","d","a","t","o","r","y",":">>)

IsDesiredLine(line) ==
  \/ StartsWith(line, <<"d",":">>)
  \/ StartsWith(line, <<"d","e","s","i","r","e","d",":">>)

\* one entry of parse_skill_list for one stripped, non-blank line
ParseSkillLine(line) ==
  LET tagged == IsMandatoryLine(line) \/ IsDesiredLine(line)
      content == IF tagged THEN Strip(AfterColon(line)) ELSE line
  IN  [skill |-> normalize_skill_label(content),
       group |-> IF IsMandatoryLine(line) THEN "mandatory" ELSE "desired",
       req   |-> None]

\* parse_skill_list; the text area is held as the lines text.splitlines() yields
parse_skill_list(lines) ==
  LET nonblank(l) == Len(Strip(l)) > 0
      kept == SelectSeq(lines, nonblank)
  IN  [k \in 1..Len(kept) |-> ParseSkillLine(Strip(kept[k]))]

\* the skills the script derives from the candidates when the list is empty
DefaultUserSkills(jd) ==
  LET cs == Candidates(jd)
      isMand(c) == \/ Contains(LowerStr(c), <<"m","i","n","i","m","u","m">>)
                   \/ Contains(LowerStr(c), <<"m","i","n">>)
  IN  [k \in 1..Len(cs) |->
         [skill |-> normalize_skill_label(cs[k]),
          group |-> IF isMand(cs[k]) THEN "mandatory" ELSE "desired",
          req   |-> None]]

\* user_skills as the script computes it on every rerun (jd = None: no upload)
UserSkills(lines, jd) ==
  LET parsed == IF \E k \in 1..Len(lines) : Len(Strip(lines[k])) > 0
                THEN parse_skill_list(lines) ELSE <<>>
  IN  IF Len(parsed) = 0 /\ jd # None THEN DefaultUserSkills(jd[1])
      ELSE parsed

\* ------------------------------------------------------------------------
\* Synonyms
\* ------------------------------------------------------------------------
DEFAULT_SYNONYMS ==
  <<"c","i","/","c","d">> :>
    SynList(<< <<"c","i","/","c","d">>,
               <<"c","i"," ","c","d">>,
               <<"c","o","n","t","i","n","u","o","u","s"," ","i","n","t","e","g","r","a","t","i","o","n">>,
               <<"c","o","n","t","i","n","u","o","u","s"," ","d","e","l","i","v","e","r","y">>,
               <<"j","e","n","k","i","n","s">>,
               <<"p","i","p","e","l","i","n","e">>,
               <<"d","e","v","o","p","s">> >>) @@
  <<"t","o","s","c","a">> :>
    SynList(<< <<"t","o","s","c","a">>,
               <<"t","r","i","c","e","n","t","i","s"," ","t","o","s","c","a">>,
               <<"t","r","i","c","e","n","t","i","s">> >>) @@
  <<"w","e","b"," ","a","p","p","l","i","c","a","t","i","o","n"," ","a","u","t","o","m","a","t","i","o","n">> :>
    SynList(<< <<"w","e","b"," ","a","p","p","l","i","c","a","t","i","o","n">>,
               <<"w","e","b"," ","a","p","p">>,
               <<"u","i"," ","a","u","t","o","m","a","t","i","o","n">>,
               <<"s","e","l","e","n","i","u","m">>,
               <<"f","r","o","n","t","e","n","d">>,
               <<"w","e","b"," ","t","e","s","t","i","n","g">>,
               <<"b","r","o","w","s","e","r"," ","t","e","s","t","i","n","g">> >>) @@
  <<"m","a","i","n","f","r","a","m","e"," ","a","u","t","o","m","a","t","i","o","n"," ","t","e","s","t","i","n","g">> :>
    SynList(<< <<"m","a","i","n","f","r","a","m","e">>,
               <<"3","2","7","0">>,
               <<"g","r","e","e","n"," ","s","c","r","e","e","n">>,
               <<"m","a","i","n","f","r","a","m","e"," ","t","e","s","t","i","n","g">>,
               <<"j","c","l">>,
               <<"c","o","b","o","l">> >>)

\* The synonyms text area, held as what json.loads makes of it: kind
\* "invalid" (json.loads raises), "array" (a JSON list) or "object" (map:
\* key -> synonyms value).
JsonInvalid == [kind |-> "invalid", map |-> <<>>]

JsonArray == [kind |-> "array", map |-> <<>>]

JsonObject(m) == [kind |-> "object", map |-> m]

\* synonyms_map: json.loads(synonyms_state), DEFAULT_SYNONYMS if it raises
SynonymsMap(doc) ==
  IF doc.kind = "invalid" THEN JsonObject(DEFAULT_SYNONYMS) ELSE doc

\* synonyms_map.get(key, [])
MapGet(m, key) == IF key \in DOMAIN m THEN m[key] ELSE SynList(<<>>)

\* build_skills_from_user raises: .get on a value that is no mapping
build_skills_raises(user_skills, synonyms_map) ==
  Len(user_skills) > 0 /\ synonyms_map.kind # "object"

build_skills_from_user(user_skills, synonyms_map) ==
  [k \in 1..Len(user_skills) |->
     [name     |-> user_skills[k].skill,
      group    |-> user_skills[k].group,
      req      |-> user_skills[k].req,
      synonyms |-> MapGet(synonyms_map.map, LowerStr(user_skills[k].skill))]]

\* ------------------------------------------------------------------------
\* State
\* ------------------------------------------------------------------------
VARIABLES
  jd_file,          \* None, or Some(the JD preview text)
  skill_list_area,  \* the skill text area, as its lines
  synonyms_state,   \* the synonyms text area, as what json.loads makes of it
  presence_weight,  \* the slider, in percent
  strict_matching,  \* the checkbox
  resumes,          \* per upload, the text extract_text_any returns for it
  pc,               \* "idle", "resume", "skill", "done", "error", "crashed"
  final_skills,
  ri,               \* uploads taken by the outer loop so far
  sj,               \* skills taken by the inner loop for upload ri
  row,
  mandatory_scores,
  desired_scores,
  present,          \* the loop body's locals for pair (ri, sj)
  years,
  score,
  results,
  label,            \* normalisation applied repeatedly: input and outputs
  norm_out,
  yin,              \* years extraction on its own: input and output
  yout,
  sc_in,            \* the scoring branch on its own: input and output
  sc_out

uivars == <<jd_file, skill_list_area, synonyms_state, presence_weight,
            strict_matching, resumes>>

loopvars == <<final_skills, ri, sj, row, mandatory_scores, desired_scores,
              present, years, score, results>>

purevars == <<label, norm_out, yin, yout, sc_in, sc_out>>

vars == <<uivars, pc, loopvars, purevars>>

\* ------------------------------------------------------------------------
\* Inputs
\* ------------------------------------------------------------------------
MaxLines == 2

MaxSkills == 3

MaxResumes == 2

MaxLoopResumes == 1

MaxLabelLen == 4

MaxYears == 7

MaxReq == 6

SliderMin == 40

SliderMax == 90

SliderDefault == 60

\* sequences over S of length lo..hi
SeqsOf(S, lo, hi) == UNION {[1..n -> S] : n \in lo..hi}

\* "Minimum 5 years experience in TOSCA required"
JD_A ==
  <<"M","i","n","i","m","u","m"," ","5"," ","y","e","a","r","s"," ","e","x",
    "p","e","r","i","e","n","c","e"," ","i","n"," ","T","O","S","C","A"," ",
    "r","e","q","u","i","r","e","d">>

\* "M: TOSCA"
LineTosca ==
  <<"M",":"," ","T","O","S","C","A">>

\* "CI/CD"
LineCiCd ==
  <<"C","I","/","C","D">>

\* "M: experience"
LineNoise ==
  <<"M",":"," ","e","x","p","e","r","i","e","n","c","e">>

\* ""
ResumeEmpty ==
  <<>>

\* "Jenkins pipeline"
ResumeJenkins ==
  <<"J","e","n","k","i","n","s"," ","p","i","p","e","l","i","n","e">>

\* "Used TOSCA daily"
ResumePlain ==
  <<"U","s","e","d"," ","T","O","S","C","A"," ","d","a","i","l","y">>

\* "Worked with TOSCA for 3-6 years on automation"
ResumeRange ==
  <<"W","o","r","k","e","d"," ","w","i","t","h"," ","T","O","S","C","A"," ",
    "f","o","r"," ","3","-","6"," ","y","e","a","r","s"," ","o","n"," ","a",
    "u","t","o","m","a","t","i","o","n">>

JDFiles == {None, Some(JD_A)}

SkillLines == {LineTosca, LineCiCd, LineNoise}

SynonymDocs ==
  { JsonObject(DEFAULT_SYNONYMS),
    JsonInvalid,
    JsonArray,
    JsonObject(<<"t","o","s","c","a">> :> SynNumber),
    JsonObject(<<"t","o","s","c","a">> :> SynNull) }

ResumeTexts == {ResumeEmpty, ResumeJenkins, ResumePlain, ResumeRange}

PresenceWeights == {SliderMin, SliderDefault, SliderMax}

\* skill entries handed to the matching loop on its own
LoopSkills ==
  { [name |-> <<"T","O","S","C","A">>, group |-> "mandatory", req |-> Some(5),
     synonyms |-> DEFAULT_SYNONYMS[<<"t","o","s","c","a">>]],
    [name |-> <<"S","Q","L">>, group |-> "mandatory", req |-> None,
     synonyms |-> SynList(<<>>)],
    [name |-> <<"A","W","S">>, group |-> "desired", req |-> Some(2),
     synonyms |-> SynList(<<>>)] }

\* "SQL, AWS 3 years"
LoopTextA ==
  <<"S","Q","L",","," ","A","W","S"," ","3"," ","y","e","a","r","s">>

\* "Used TOSCA daily"
LoopTextB ==
  <<"U","s","e","d"," ","T","O","S","C","A"," ","d","a","i","l","y">>

\* "TOSCA 3 years"
LoopTextC ==
  <<"T","O","S","C","A"," ","3"," ","y","e","a","r","s">>

LoopTexts == {LoopTextA, LoopTextB, LoopTextC}

NoScoreInput == [req |-> None, present |-> FALSE, years |-> None, pw |-> SliderDefault]

NoYearsInput == [lo |-> 0, hi |-> 0, dash |-> "-", text |-> <<>>]

LoopIdle ==
  /\ ri = 0
  /\ sj = 0
  /\ row = [Resume |-> 0, cells |-> <<>>, Match |-> 0]
  /\ mandatory_scores = <<>>
  /\ desired_scores = <<>>
  /\ present = FALSE
  /\ years = None
  /\ score = <<0, 1>>
  /\ results = <<>>

PureIdle ==
  /\ label = <<>>
  /\ norm_out = <<>>
  /\ yin = NoYearsInput
  /\ yout = <<>>
  /\ sc_in = NoScoreInput
  /\ sc_out = <<>>

UiIdle ==
  /\ jd_file = None
  /\ skill_list_area = <<>>
  /\ synonyms_state = JsonObject(DEFAULT_SYNONYMS)
  /\ presence_weight = SliderDefault
  /\ strict_matching = TRUE
  /\ resumes = <<>>

\* the script as rendered, before "Run Matching" is clicked
Init ==
  /\ jd_file \in JDFiles
  /\ skill_list_area \in SeqsOf(SkillLines, 0, MaxLines)
  /\ synonyms_state \in SynonymDocs
  /\ presence_weight \in PresenceWeights
  /\ strict_matching \in BOOLEAN
  /\ resumes \in SeqsOf(ResumeTexts, 0, MaxResumes)
  /\ pc = "idle"
  /\ final_skills = <<>>
  /\ LoopIdle
  /\ PureIdle

\* ------------------------------------------------------------------------
\* The run
\* ------------------------------------------------------------------------
Crash == pc' = "crashed"

\* "Run Matching" clicked: the guards, then final_skills
RunMatching ==
  /\ pc = "idle"
  /\ LET user_skills == UserSkills(skill_list_area, jd_file)
         synonyms_map == SynonymsMap(synonyms_state)
     IN  IF jd_file = None \/ Len(resumes) = 0
         THEN pc' = "error" /\ UNCHANGED final_skills
         ELSE IF build_skills_raises(user_skills, synonyms_map)
         THEN Crash /\ UNCHANGED final_skills
         ELSE /\ final_skills' = build_skills_from_user(user_skills, synonyms_map)
              /\ pc' = "resume"
  /\ UNCHANGED <<uivars, ri, sj, row, mandatory_scores, desired_scores,
                 present, years, score, results, purevars>>

\* the outer loop takes the next upload
StartResume ==
  /\ pc = "resume"
  /\ ri < Len(resumes)
  /\ ri' = ri + 1
  /\ sj' = 0
  /\ row' = [Resume |-> ri + 1, cells |-> <<>>, Match |-> 0]
  /\ mandatory_scores' = <<>>
  /\ desired_scores' = <<>>
  /\ pc' = "skill"
  /\ UNCHANGED <<uivars, final_skills, present, years, score, results, purevars>>

\* one row cell group: presence, years, req and score_% of a skill
Cell(is_present, years_found, req, sc) ==
  [presence |-> IF is_present THEN "Yes" ELSE "No",
   years    |-> IF TruthyNum(years_found) THEN years_found ELSE None,
   req      |-> IF TruthyNum(req) THEN req ELSE None,
   score    |-> RoundPercent(sc)]

\* the body of the inner loop for the next skill
ScoreSkill ==
  /\ pc = "skill"
  /\ sj < Len(final_skills)
  /\ LET sk == final_skills[sj + 1]
         txt_norm == resumes[ri]
         presence_w == Rat(presence_weight, 100)
         exp_w == RSub(<<1, 1>>, presence_w)
     IN  IF has_skill_raises(txt_norm, sk.name, sk.synonyms)
         THEN Crash /\ UNCHANGED loopvars
         ELSE
           \E fz \in (IF FuzzyDecides(txt_norm, sk.name, sk.synonyms, strict_matching)
                      THEN BOOLEAN ELSE {FALSE}) :
             LET p == has_skill(txt_norm, sk.name, sk.synonyms, strict_matching, fz)
                 y == IF p
                      THEN extract_years_near_skill(
                             txt_norm, <<sk.name>> \o sk.synonyms.items, Window)
                      ELSE None
                 sc == SkillScore(sk.req, p, y, presence_w, exp_w)
             IN  IF p /\ sk.synonyms.kind # "list"   \* [name]+syns raises
                 THEN Crash /\ UNCHANGED loopvars
                 ELSE /\ present' = p
                      /\ years' = y
                      /\ score' = sc
                      /\ row' = [row EXCEPT !.cells =
                                   (sk.name :> Cell(p, y, sk.req, sc)) @@ @]
                      /\ IF sk.group = "mandatory"
                         THEN /\ mandatory_scores' = Append(mandatory_scores, sc)
                              /\ UNCHANGED desired_scores
                         ELSE /\ desired_scores' = Append(desired_scores, sc)
                              /\ UNCHANGED mandatory_scores
                      /\ sj' = sj + 1
                      /\ pc' = "skill"
                      /\ UNCHANGED <<final_skills, ri, results>>
  /\ UNCHANGED <<uivars, purevars>>

\* after the inner loop: aggregate and append the row
FinishResume ==
  /\ pc = "skill"
  /\ sj = Len(final_skills)
  /\ LET overall == Overall(mandatory_scores, desired_scores)
     IN  /\ row' = [row EXCEPT !.Match = overall]
         /\ results' = Append(results, [row EXCEPT !.Match = overall])
  /\ pc' = "resume"
  /\ UNCHANGED <<uivars, final_skills, ri, sj, mandatory_scores,
                 desired_scores, present, years, score, purevars>>

\* after the outer loop: the result table is shown
FinishRun ==
  /\ pc = "resume"
  /\ ri = Len(resumes)
  /\ pc' = "done"
  /\ UNCHANGED <<uivars, loopvars, purevars>>

Next == RunMatching \/ StartResume \/ ScoreSkill \/ FinishResume \/ FinishRun

Spec == Init /\ [][Next]_vars

\* ------------------------------------------------------------------------
\* The matching loop on its own: any skill entries, required years included
\* ------------------------------------------------------------------------
InitLoop ==
  /\ jd_file = Some(JD_A)
  /\ skill_list_area = <<>>
  /\ synonyms_state = JsonObject(<<>>)
  /\ presence_weight \in PresenceWeights
  /\ strict_matching \in BOOLEAN
  /\ resumes \in SeqsOf(LoopTexts, 1, MaxLoopResumes)
  /\ pc = "resume"
  /\ final_skills \in SeqsOf(LoopSkills, 0, MaxSkills)
  /\ LoopIdle
  /\ PureIdle

NextLoop == StartResume \/ ScoreSkill \/ FinishResume \/ FinishRun

SpecLoop == InitLoop /\ [][NextLoop]_vars

\* ------------------------------------------------------------------------
\* normalize_skill_label applied to a label, then to its own result
\* ------------------------------------------------------------------------
NormChars == {"e", "x", "p", "a", "_", "-", " "}

InitNorm ==
  /\ label \in SeqsOf(NormChars, 0, MaxLabelLen)
  /\ norm_out = <<>>
  /\ yin = NoYearsInput
  /\ yout = <<>>
  /\ sc_in = NoScoreInput
  /\ sc_out = <<>>
  /\ UiIdle
  /\ pc = "idle"
  /\ final_skills = <<>>
  /\ LoopIdle

Normalize ==
  /\ Len(norm_out) < 2
  /\ norm_out' = Append(norm_out,
                        normalize_skill_label(IF Len(norm_out) = 0 THEN label
                                              ELSE norm_out[Len(norm_out)]))
  /\ UNCHANGED <<uivars, pc, loopvars, label, yin, yout, sc_in, sc_out>>

SpecNorm == InitNorm /\ [][Normalize]_vars

\* ------------------------------------------------------------------------
\* extract_years_near_skill on a text whose only years figure is a range
\* ------------------------------------------------------------------------
DigitChars == <<"0","1","2","3","4","5","6","7","8","9">>

\* str(n)
RECURSIVE IntToStr(_)
IntToStr(n) ==
  IF n < 10 THEN <<DigitChars[n + 1]>>
  ELSE IntToStr(n \div 10) \o <<DigitChars[(n % 10) + 1]>>

Mention == <<"T","O","S","C","A">>

YearUnits == { <<"y","e","a","r","s">>, <<"y","r","s">>, <<"y">> }

\* "TOSCA <lo><dash><hi> <unit>", with or without spaces around the dash
RangeText(lo, hi, dash, sp, unit) ==
  Mention \o <<" ">> \o IntToStr(lo) \o sp \o <<dash>> \o sp \o IntToStr(hi)
    \o <<" ">> \o unit

InitYears ==
  /\ \E lo \in 0..MaxYears, hi \in 0..MaxYears, dash \in {"-", EnDash},
        sp \in {<<>>, <<" ">>}, unit \in YearUnits :
       /\ lo < hi
       /\ yin = [lo |-> lo, hi |-> hi, dash |-> dash,
                 text |-> RangeText(lo, hi, dash, sp, unit)]
  /\ yout = <<>>
  /\ label = <<>>
  /\ norm_out = <<>>
  /\ sc_in = NoScoreInput
  /\ sc_out = <<>>
  /\ UiIdle
  /\ pc = "idle"
  /\ final_skills = <<>>
  /\ LoopIdle

ExtractYears ==
  /\ yout = <<>>
  /\ yout' = <<extract_years_near_skill(yin.text, <<Mention>>, Window)>>
  /\ UNCHANGED <<uivars, pc, loopvars, label, norm_out, yin, sc_in, sc_out>>

SpecYears == InitYears /\ [][ExtractYears]_vars

\* ------------------------------------------------------------------------
\* The scoring branch of the loop body on its own
\* ------------------------------------------------------------------------
InitScore ==
  /\ sc_in \in [req     : {None} \cup {Some(r) : r \in 1..MaxReq},
                present : BOOLEAN,
                years   : {None} \cup {Some(y) : y \in 0..MaxYears},
                pw      : SliderMin..SliderMax]
  /\ sc_out = <<>>
  /\ label = <<>>
  /\ norm_out = <<>>
  /\ yin = NoYearsInput
  /\ yout = <<>>
  /\ UiIdle
  /\ pc = "idle"
  /\ final_skills = <<>>
  /\ LoopIdle

ApplyScore ==
  /\ sc_out = <<>>
  /\ LET presence_w == Rat(sc_in.pw, 100)
         exp_w == RSub(<<1, 1>>, presence_w)
     IN  sc_out' = <<SkillScore(sc_in.req, sc_in.present, sc_in.years,
                                presence_w, exp_w)>>
  /\ UNCHANGED <<uivars, pc, loopvars, label, norm_out, yin, yout, sc_in>>

SpecScore == InitScore /\ [][ApplyScore]_vars

\* ------------------------------------------------------------------------
\* Properties
\* ------------------------------------------------------------------------
\* the loop body has just scored pair (resume ri, skill sj)
Scored == pc = "skill" /\ sj >= 1

\* the run got past its guards and built final_skills
Started == pc \in {"resume", "skill", "done"}

\* two fractions are equal
SameFraction(a, b) == a[1] * b[2] = b[1] * a[2]

\* C1: the per-skill score equals the score table: 0.0 when the skill is not
\* present; 1.0 when present and no years are required; presence_weight when
\* present, years are required and none were found; presence_weight +
\* (1 - presence_weight) * min(years_found / required_years, 1.0) when present,
\* years are required and years were found.
C1_ScoreTable ==
  sc_out # <<>> =>
    LET pw == sc_in.pw
        table ==
          IF ~sc_in.present THEN <<0, 1>>
          ELSE IF sc_in.req = None THEN <<1, 1>>
          ELSE IF sc_in.years = None THEN <<pw, 100>>
          ELSE LET r == sc_in.req[1]
                   y == sc_in.years[1]
               IN  <<pw * r + (100 - pw) * (IF y < r THEN y ELSE r), 100 * r>>
    IN  SameFraction(sc_out[1], table)

\* C1 witness: a present skill with 3 of 5 required years at weight 60 scores
\* 0.6 + 0.4 * 3/5 = 21/25
C1_Witness ==
  /\ sc_in = [req |-> Some(5), present |-> TRUE, years |-> Some(3), pw |-> 60]
  /\ sc_out = << <<21, 25>> >>

\* C2: the required years a skill is scored against are those the requirement
\* regex extracts from the JD text for that skill; for skill TOSCA a resume
\* that mentions it with no years figure then scores presence_weight.
C2_ReqFromJD ==
  (Scored /\ final_skills[sj].name = Mention) =>
    LET parsed == ParseRequirement(jd_file[1], Mention)
    IN  /\ final_skills[sj].req = parsed
        /\ (TruthyNum(parsed) /\ present /\ years = None)
             => SameFraction(score, <<presence_weight, 100>>)

\* C3: with the skill list "CI/CD", a synonym map whose "ci/cd" entry includes
\* "jenkins" and the resume text "Jenkins pipeline", the skill is reported
\* present with score 1.0 (stated for strict matching, the default, where the
\* outcome does not rest on the fuzzy tier).
C3_SynonymPresence ==
  LET m == SynonymsMap(synonyms_state)
      key == <<"c","i","/","c","d">>
      jenkins == <<"j","e","n","k","i","n","s">>
  IN  ( /\ Scored
        /\ strict_matching
        /\ skill_list_area = <<LineCiCd>>
        /\ resumes[ri] = ResumeJenkins
        /\ m.kind = "object"
        /\ key \in DOMAIN m.map
        /\ m.map[key].kind = "list"
        /\ InSeq(jenkins, m.map[key].items) )
      => (present /\ score = <<1, 1>>)

\* the synonyms input is no well-formed mapping from label to list of strings
Malformed(doc) ==
  \/ doc.kind \in {"invalid", "array"}
  \/ /\ doc.kind = "object"
     /\ \E key \in DOMAIN doc.map : doc.map[key].kind # "list"

\* skill entry sk is affected by the malformed input doc
Affected(doc, sk) ==
  \/ doc.kind \in {"invalid", "array"}
  \/ /\ doc.kind = "object"
     /\ LowerStr(sk.name) \in DOMAIN doc.map
     /\ doc.map[LowerStr(sk.name)].kind # "list"

\* C4: a malformed synonyms input is never fatal: the run does not abort, and
\* it ends with a row for every resume, the affected skills having been
\* matched with an empty synonym list.
C4_MalformedNotFatal ==
  Malformed(synonyms_state) =>
    /\ pc # "crashed"
    /\ pc = "done" =>
         /\ Len(results) = Len(resumes)
         /\ \A k \in 1..Len(final_skills) :
              Affected(synonyms_state, final_skills[k])
                => final_skills[k].synonyms = SynList(<<>>)

\* C5: when the only years figure near the mention is a range lo-hi or
\* lo<en-dash>hi with lo < hi, the extracted years are hi.
C5_RangeUpperBound ==
  yout # <<>> => yout[1] = Some(yin.hi)

\* C6: normalising a normalised label changes nothing.
C6_Idempotent ==
  Len(norm_out) = 2 => norm_out[2] = norm_out[1]

\* the exact sum of a list of fractions, as <<numerator, denominator>>
RECURSIVE FractionSum(_)
FractionSum(xs) ==
  IF Len(xs) = 0 THEN <<0, 1>>
  ELSE LET r == FractionSum(Tail(xs))
           n == Head(xs)[1] * r[2] + r[1] * Head(xs)[2]
           d == Head(xs)[2] * r[2]
           g == GCD(n, d)
       IN  <<n \div g, d \div g>>

\* the mean of a list of fractions, 0 for the empty list
FractionMean(xs) ==
  IF Len(xs) = 0 THEN <<0, 1>>
  ELSE <<FractionSum(xs)[1], FractionSum(xs)[2] * Len(xs)>>

\* how many entries of final_skills are in group g
GroupSize(g) == Cardinality({k \in 1..Len(final_skills) : final_skills[k].group = g})

\* C7: the overall percentage of a resume is (mandatory_avg*0.8 +
\* desired_avg*0.2)*100 rounded to two decimals, the averages being the means
\* of the scores of the mandatory-group and of the desired-group skills (0.0
\* for an empty group).
C7_Overall ==
  (pc = "resume" /\ ri >= 1) =>
    LET m == FractionMean(mandatory_scores)
        d == FractionMean(desired_scores)
        \* (0.8*m + 0.2*d) * 100, in hundredths
        num == 8000 * m[1] * d[2] + 2000 * d[1] * m[2]
        den == m[2] * d[2]
        diff == results[ri].Match * den - num
    IN  /\ Len(mandatory_scores) = GroupSize("mandatory")
        /\ Len(desired_scores) = Len(final_skills) - GroupSize("mandatory")
        /\ 2 * diff <= den
        /\ 2 * diff >= 0 - den

\* C7 witness: mandatory scores [1.0, 0.0] and desired scores [1.0] give 60%
C7_Witness ==
  /\ pc = "resume"
  /\ ri >= 1
  /\ mandatory_scores = << <<1, 1>>, <<0, 1>> >>
  /\ desired_scores = << <<1, 1>> >>
  /\ results[ri].Match = 6000

\* C8: every per-skill score is within [0, 1] and every overall percentage
\* within [0, 100].
C8_Bounds ==
  /\ Scored => (score[1] >= 0 /\ score[1] <= score[2])
  /\ \A k \in 1..Len(mandatory_scores) :
       mandatory_scores[k][1] >= 0 /\ mandatory_scores[k][1] <= mandatory_scores[k][2]
  /\ \A k \in 1..Len(desired_scores) :
       desired_scores[k][1] >= 0 /\ desired_scores[k][1] <= desired_scores[k][2]
  /\ \A n \in DOMAIN row.cells :
       row.cells[n].score >= 0 /\ row.cells[n].score <= 10000
  /\ \A k \in 1..Len(results) :
       /\ results[k].Match >= 0
       /\ results[k].Match <= 10000
       /\ \A n \in DOMAIN results[k].cells :
            results[k].cells[n].score >= 0 /\ results[k].cells[n].score <= 10000

\* C8 witness: a skill whose found years (3) exceed the required years (2) is
\* scored, and a later row carries an overall percentage strictly between
\* 0 and 100
C8_Witness ==
  /\ pc = "resume"
  /\ ri >= 1
  /\ resumes[ri] = LoopTextA
  /\ \E k \in 1..Len(final_skills) : final_skills[k].req = Some(2)
  /\ row.cells[<<"A","W","S">>].years = Some(3)
  /\ row.cells[<<"A","W","S">>].score = 10000
  /\ results[ri].Match > 0
  /\ results[ri].Match < 10000

\* a run past its guards has ended
RunEnded == pc \in {"done", "crashed"}

\* C9: a run over a non-empty batch yields exactly one row per submitted
\* resume, in submission order; a resume with empty text gets presence "No"
\* and score 0 on every skill and an overall percentage of 0.
C9_OneRowPerResume ==
  RunEnded =>
    /\ Len(results) = Len(resumes)
    /\ \A k \in 1..Len(results) :
         /\ results[k].Resume = k
         /\ resumes[k] = <<>> =>
              /\ results[k].Match = 0
              /\ \A n \in DOMAIN results[k].cells :
                   /\ results[k].cells[n].presence = "No"
                   /\ results[k].cells[n].score = 0

\* C10: no skill entry that reaches scoring has an empty label.
C10_NoEmptyLabel ==
  Started => \A k \in 1..Len(final_skills) : Len(final_skills[k].name) > 0

====
